---- MODULE Spec2Model ----
(***************************************************************************)
(* Two-pool constant-product arbitrage: calculate_amount_out,              *)
(* calculate_arbitrage and simulate_multi_round_arbitrage of src/main.py.  *)
(*                                                                         *)
(* Python's float is IEEE-754 binary64: every operation returns the exact  *)
(* result rounded to the nearest representable value, ties to even, with   *)
(* gradual underflow below 2^-1022, overflow to inf from 2^1024 and nan    *)
(* for inf - inf, 0 * inf and inf / inf; division by zero raises           *)
(* ZeroDivisionError.  The model computes exactly that, bit for bit.       *)
(* A significand of 53 bits does not fit an integer of the checker, so a   *)
(* natural number is a sequence of limbs in base 2^14, least significant   *)
(* first.  A float is a record [sign, m, e] with m of four limbs:          *)
(*   sign * m * 2^e with 2^52 <= m < 2^53, MinExp <= e <= MaxExp (normal), *)
(*   sign * m * 2^MinExp with 0 < m < 2^52                 (subnormal),    *)
(*   [sign |-> 1, m |-> 0, e |-> MinExp]                   (0.0 and -0.0), *)
(*   [sign |-> 1 or -1, m |-> 1, e |-> SpecialExp]         (inf, -inf),    *)
(*   [sign |-> 1, m |-> 0, e |-> SpecialExp]               (nan).          *)
(* The representation is unique, so record equality is equality of floats  *)
(* except that nan equals itself here.  -0.0 is not told from 0.0: the     *)
(* program never divides by a zero without raising and never looks at the  *)
(* sign of a zero.                                                         *)
(* x ** 0.5 is the C library's pow, which is accurate to within one unit   *)
(* in the last place but not always correctly rounded: where the root is   *)
(* not a float, the result is either of the two floats that enclose it.    *)
(***************************************************************************)
EXTENDS Integers, Sequences, FiniteSets, TLC

\* Largest max_rounds the caller passes.
MaxRounds == 3

(***************************************************************************)
(* Natural numbers of more than 31 bits                                    *)
(***************************************************************************)
\* A limb holds LimbBits bits: a digit in base Base = 2^LimbBits.
LimbBits == 14

Base == 16384

\* The k-th limb of a, 0 outside a.
Limb(a, k) == IF 1 <= k /\ k <= Len(a) THEN a[k] ELSE 0

\* The limbs of a small integer 0 <= n < 2^31.
IntLimbs(n) == <<n % Base, (n \div Base) % Base, n \div (Base * Base)>>

\* The first four limbs of a, as a tuple.
Limbs4(a) == <<Limb(a, 1), Limb(a, 2), Limb(a, 3), Limb(a, 4)>>

\* The limbs of the number whose columns (any integers) are cols, from column k
\* with an incoming carry; the number is non-negative and fits Len(cols) limbs.
RECURSIVE CarryFrom(_, _, _)
CarryFrom(cols, k, carry) ==
  IF k > Len(cols) THEN << >>
  ELSE <<(cols[k] + carry) % Base>> \o CarryFrom(cols, k + 1, (cols[k] + carry) \div Base)

Carry(cols) == CarryFrom(cols, 1, 0)

\* a + b, a - b (for a >= b) and a * digit in width limbs.
NatAdd(a, b, width) == Carry([k \in 1 .. width |-> Limb(a, k) + Limb(b, k)])

NatSub(a, b, width) == Carry([k \in 1 .. width |-> Limb(a, k) - Limb(b, k)])

NatScale(a, digit, width) == Carry([k \in 1 .. width |-> Limb(a, k) * digit])

\* a * b in width limbs, for a of at most four limbs.
NatMul(a, b, width) ==
  Carry([k \in 1 .. width |->
           Limb(a, 1) * Limb(b, k) + Limb(a, 2) * Limb(b, k - 1)
           + Limb(a, 3) * Limb(b, k - 2) + Limb(a, 4) * Limb(b, k - 3)])

\* a < b, comparing the limbs from the k-th down.
RECURSIVE NatLessFrom(_, _, _)
NatLessFrom(a, b, k) ==
  IF k = 0 THEN FALSE
  ELSE IF Limb(a, k) # Limb(b, k) THEN Limb(a, k) < Limb(b, k)
  ELSE NatLessFrom(a, b, k - 1)

NatLess(a, b) == NatLessFrom(a, b, IF Len(a) > Len(b) THEN Len(a) ELSE Len(b))

NatIsZero(a) == \A k \in 1 .. Len(a) : a[k] = 0

\* a * 2^k and a \div 2^k in width limbs (k >= 0).
ShiftLeft(a, k, width) ==
  [j \in 1 .. width |->
     (Limb(a, j - (k \div LimbBits)) % (2 ^ (LimbBits - (k % LimbBits)))) * (2 ^ (k % LimbBits))
     + (Limb(a, j - (k \div LimbBits) - 1) \div (2 ^ (LimbBits - (k % LimbBits))))]

ShiftRight(a, k, width) ==
  [j \in 1 .. width |->
     (Limb(a, j + (k \div LimbBits)) \div (2 ^ (k % LimbBits)))
     + (Limb(a, j + (k \div LimbBits) + 1) % (2 ^ (k % LimbBits))) * (2 ^ (LimbBits - (k % LimbBits)))]

\* Bit p of a (bit 0 is the lowest), and whether all the bits below p are 0.
BitAt(a, p) == (Limb(a, (p \div LimbBits) + 1) \div (2 ^ (p % LimbBits))) % 2

LowBitsZero(a, p) ==
  /\ \A k \in 1 .. Len(a) : k <= (p \div LimbBits) => a[k] = 0
  /\ Limb(a, (p \div LimbBits) + 1) % (2 ^ (p % LimbBits)) = 0

\* The number of bits of a limb n.
BitLenLow(n) == CHOOSE k \in 0 .. LimbBits : n < 2 ^ k /\ (k = 0 \/ n >= 2 ^ (k - 1))

\* The index of the highest non-zero limb of a among the first k, 0 if none.
RECURSIVE TopLimb(_, _)
TopLimb(a, k) == IF k = 0 THEN 0 ELSE IF a[k] # 0 THEN k ELSE TopLimb(a, k - 1)

BitLenAt(a, top) == IF top = 0 THEN 0 ELSE LimbBits * (top - 1) + BitLenLow(a[top])

\* The number of bits of a.
BitLen(a) == BitLenAt(a, TopLimb(a, Len(a)))

\* a / 2^k rounded to the nearest integer, ties to even (k >= 1), in four limbs.
RoundedUp(a, k, q) == BitAt(a, k - 1) = 1 /\ (~LowBitsZero(a, k - 1) \/ q[1] % 2 = 1)

RoundHalfEvenFrom(a, k, q) == IF RoundedUp(a, k, q) THEN NatAdd(q, <<1>>, 4) ELSE q

RoundHalfEven(a, k) == RoundHalfEvenFrom(a, k, ShiftRight(a, k, 4))

(***************************************************************************)
(* Floating-point arithmetic                                               *)
(***************************************************************************)
\* Bits of significand of a float.
Precision == 53

\* Exponent of the last place of the smallest and of the largest finite floats.
MinExp == -1021 - Precision

MaxExp == 1024 - Precision

\* Exponent field marking inf and nan.
SpecialExp == MaxExp + 1

\* 2^(Precision - 1) and 2^Precision.
LeastNormal == <<0, 0, 0, 1024>>

PastNormal == <<0, 0, 0, 2048>>

Zero == [sign |-> 1, m |-> <<0, 0, 0, 0>>, e |-> MinExp]

NaN == [sign |-> 1, m |-> <<0, 0, 0, 0>>, e |-> SpecialExp]

Inf(sign) == [sign |-> sign, m |-> <<1, 0, 0, 0>>, e |-> SpecialExp]

IsNaN(x) == x = NaN

IsInf(x) == x.e = SpecialExp /\ x.m # NaN.m

IsFinite(x) == x.e # SpecialExp

IsZero(x) == x = Zero

AbsInt(n) == IF n < 0 THEN -n ELSE n

SgnInt(n) == IF n < 0 THEN -1 ELSE 1

\* The float sign * q * 2^exponent for a rounded significand q <= 2^Precision:
\* a q that rounded up to 2^Precision moves to the next exponent, and a result
\* past the largest float is inf.
NormalAt(sign, q, place) ==
  IF place > MaxExp THEN Inf(sign) ELSE [sign |-> sign, m |-> q, e |-> place]

Normal(sign, q, exponent) ==
  IF q = PastNormal THEN NormalAt(sign, LeastNormal, exponent + 1)
  ELSE NormalAt(sign, Limbs4(q), exponent)

\* The float sign * q * 2^MinExp of the subnormal range.
Subnormal(sign, q) ==
  IF NatIsZero(q) THEN Zero ELSE [sign |-> sign, m |-> Limbs4(q), e |-> MinExp]

\* sign * n * 2^e, n of L bits, rounded to Precision bits.
RoundNormal(sign, n, e, L) ==
  Normal(sign,
         IF L > Precision THEN RoundHalfEven(n, L - Precision)
         ELSE ShiftLeft(n, Precision - L, 4),
         e + L - Precision)

\* sign * n * 2^(MinExp - k), rounded to a multiple of 2^MinExp.
RoundSubnormal(sign, n, k) ==
  Subnormal(sign, IF k <= 0 THEN ShiftLeft(n, -k, 4) ELSE RoundHalfEven(n, k))

\* sign * n * 2^e, n of L bits, rounded: to Precision bits in the normal range,
\* to the last place 2^MinExp below it.
RoundBits(sign, n, e, L) ==
  IF L = 0 THEN Zero
  ELSE IF e + L - Precision >= MinExp THEN RoundNormal(sign, n, e, L)
  ELSE RoundSubnormal(sign, n, MinExp - e)

\* The float nearest to sign * n * 2^e, for a natural number n.
Rnd(sign, n, e) == RoundBits(sign, n, e, BitLen(n))

\* The float of an int, |n| < 2^31.
FromInt(n) == Rnd(SgnInt(n), IntLimbs(AbsInt(n)), 0)

\* The same finite nonzero value with a full-width significand (the exponent
\* may fall below MinExp): the operand form of division and root.
NormalizeBy(x, shift) == [sign |-> x.sign, m |-> ShiftLeft(x.m, shift, 4), e |-> x.e - shift]

Normalize(x) == NormalizeBy(x, Precision - BitLen(x.m))

Neg(x) == IF IsZero(x) \/ IsNaN(x) THEN x ELSE [x EXCEPT !.sign = -@]

Abs(x) == [x EXCEPT !.sign = 1]

\* sa * a + sb * b times 2^e, rounded.
AddMagnitudes(sa, a, sb, b, e) ==
  IF sa = sb THEN Rnd(sa, NatAdd(a, b, 8), e)
  ELSE IF NatLess(a, b) THEN Rnd(sb, NatSub(b, a, 8), e)
  ELSE Rnd(sa, NatSub(a, b, 8), e)

\* hi + lo for nonzero finite floats with hi.e >= lo.e: the exact sum, rounded.
\* An operand more than Precision + 1 binary places below the other is under a
\* quarter of its last place and is absorbed.
AddAligned(hi, lo) ==
  IF hi.e - lo.e > Precision + 1 THEN hi
  ELSE AddMagnitudes(hi.sign, ShiftLeft(hi.m, hi.e - lo.e, 8), lo.sign, lo.m, lo.e)

Add(x, y) ==
  IF IsNaN(x) \/ IsNaN(y) THEN NaN
  ELSE IF IsInf(x) THEN (IF IsInf(y) /\ y.sign # x.sign THEN NaN ELSE x)
  ELSE IF IsInf(y) THEN y
  ELSE IF IsZero(x) THEN y
  ELSE IF IsZero(y) THEN x
  ELSE IF x.e >= y.e THEN AddAligned(x, y)
  ELSE AddAligned(y, x)

Sub(x, y) == Add(x, Neg(y))

Mul(x, y) ==
  IF IsNaN(x) \/ IsNaN(y) THEN NaN
  ELSE IF IsInf(x) \/ IsInf(y)
  THEN (IF IsZero(x) \/ IsZero(y) THEN NaN ELSE Inf(x.sign * y.sign))
  ELSE Rnd(x.sign * y.sign, NatMul(x.m, y.m, 8), x.e + y.e)

\* The digit floor(rem / d) of a long division, from a guess that is at most 2
\* too large (rem < d * Base, d of four limbs with its top limb >= Base / 2).
RECURSIVE QuotientDigit(_, _, _)
QuotientDigit(rem, d, guess) ==
  IF NatLess(rem, NatScale(d, guess, 5)) THEN QuotientDigit(rem, d, guess - 1) ELSE guess

DigitGuess(rem, d) ==
  IF (rem[5] * Base + rem[4]) \div d[4] >= Base THEN Base - 1
  ELSE (rem[5] * Base + rem[4]) \div d[4]

\* The long division of rem * Base^steps + low by d, for rem < d and low of steps
\* limbs: each step brings the next limb of low down to the remainder and takes
\* a digit.  The result is the quotient q and the last remainder.
RECURSIVE LongDivide(_, _, _, _, _)
DivideStep(rem, low, d, steps, q, digit) ==
  LongDivide(Limbs4(NatSub(rem, NatScale(d, digit, 5), 5)), low, d, steps - 1, <<digit>> \o q)

DivideLimb(rem, low, d, steps, q) ==
  DivideStep(rem, low, d, steps, q, QuotientDigit(rem, d, DigitGuess(rem, d)))

LongDivide(rem, low, d, steps, q) ==
  IF steps = 0 THEN [q |-> q, rem |-> rem]
  ELSE DivideLimb(<<low[steps]>> \o rem, low, d, steps, q)

\* The quotient with a sticky bit for the remainder: 2 * q + (0 or 1).
WithSticky(q, exact) == [ShiftLeft(q, 1, 4) EXCEPT ![1] = @ + (IF exact THEN 0 ELSE 1)]

DivRounded(sign, division, e) == Rnd(sign, WithSticky(division.q, NatIsZero(division.rem)), e)

\* nx / ny for full-width significands: the quotient nx.m * 2^(Precision + 1)
\* \div ny.m of Precision + 1 or Precision + 2 bits with a sticky bit for the
\* remainder, then rounded.  The long division has both operands times 8, which
\* fills the divisor's top limb.
DivNormalized(nx, ny) ==
  DivRounded(nx.sign * ny.sign,
             LongDivide(Limbs4(ShiftLeft(nx.m, 1, 4)), <<0, 0, 0, 0>>, ShiftLeft(ny.m, 3, 4), 4, << >>),
             nx.e - ny.e - Precision - 2)

\* x / y for y # 0.
Div(x, y) ==
  IF IsNaN(x) \/ IsNaN(y) THEN NaN
  ELSE IF IsInf(x) THEN (IF IsInf(y) THEN NaN ELSE Inf(x.sign * y.sign))
  ELSE IF IsInf(y) \/ IsZero(x) THEN Zero
  ELSE DivNormalized(Normalize(x), Normalize(y))

\* The largest s with s * s <= t for an integer 0 <= t < 2^24, bit by bit: acc
\* holds the bits of s above the one of weight bit.
RECURSIVE ISqrtSmall(_, _, _)
ISqrtSmall(t, acc, bit) ==
  IF bit = 0 THEN acc
  ELSE IF (acc + bit) * (acc + bit) <= t THEN ISqrtSmall(t, acc + bit, bit \div 2)
  ELSE ISqrtSmall(t, acc, bit \div 2)

\* (r + n \div r) \div 2, the next Newton iterate for the root of n, from n4 = 4 * n
\* (2^53 <= r < 2^54, which fills the top limb of the divisor 4 * r).
NewtonNext(n4, r) ==
  ShiftRight(NatAdd(r, LongDivide(<<n4[5], n4[6], n4[7], n4[8]>>, n4, ShiftLeft(r, 2, 4),
                                  4, << >>).q, 4), 1, 4)

\* The iterates fall from a start above the root until they reach it.
RECURSIVE NewtonFrom(_, _, _)
NewtonFrom(n4, r, next) ==
  IF NatLess(next, r) THEN NewtonFrom(n4, Limbs4(next), NewtonNext(n4, Limbs4(next))) ELSE r

NewtonRoot(n4, start) == NewtonFrom(n4, start, NewtonNext(n4, start))

\* The largest r with r * r <= n, for 2^106 <= n < 2^108: Newton's iteration
\* from (s + 1) * 2^42 - 1, s the integer root of the top 24 bits n \div 2^84.
ISqrt(n) ==
  NewtonRoot(ShiftLeft(n, 2, 8),
             <<Base - 1, Base - 1, Base - 1, ISqrtSmall(n[8] * Base + n[7], 0, 2048)>>)

\* The float nearest to the root of n * 2^e (e even), one of the two outcomes
\* of pow, from r, the integer root of n: r with a sticky bit, rounded.
RootRounded(n, r, e) == Rnd(1, WithSticky(r, NatMul(r, r, 8) = n), (e \div 2) - 1)

\* The float of the two enclosing the root of n * 2^e that is not the correctly
\* rounded one; the root itself if it is a float.  r has Precision + 1 bits.
RootOtherOf(nearest, below, e) ==
  IF nearest = Normal(1, below, e) THEN Normal(1, NatAdd(below, <<1>>, 4), e)
  ELSE Normal(1, below, e)

RootOther(n, r, e) ==
  IF r[1] % 2 = 0 /\ NatMul(r, r, 8) = n THEN RootRounded(n, r, e)
  ELSE RootOtherOf(RootRounded(n, r, e), ShiftRight(r, 1, 4), (e \div 2) + 1)

RootChosen(n, r, e, rounding) ==
  IF rounding = "nearest" THEN RootRounded(n, r, e) ELSE RootOther(n, r, e)

\* The root of nx.m * 2^nx.e shifted left by s bits so that the exponent is even.
RootOfShifted(n, e, rounding) == RootChosen(n, ISqrt(n), e, rounding)

RootShifted(nx, s, rounding) == RootOfShifted(ShiftLeft(nx.m, s, 8), nx.e - s, rounding)

\* The root of a positive nx with a full-width significand, to Precision + 1 bits.
RootNormalized(nx, rounding) ==
  RootShifted(nx, IF (nx.e - (Precision + 1)) % 2 = 0 THEN Precision + 1 ELSE Precision + 2,
              rounding)

\* The ways pow may round a root that is not a float.
PowRoundings == {"nearest", "other"}

\* x ** 0.5 where it is a float (x >= 0, nan, inf or -inf; a negative finite x
\* gives a complex number): nan for nan, inf for inf and for -inf.
PowHalf(x, rounding) ==
  IF IsNaN(x) THEN NaN
  ELSE IF IsInf(x) THEN Inf(1)
  ELSE IF IsZero(x) THEN Zero
  ELSE RootNormalized(Normalize(x), rounding)

\* |x| < |y| for x and y not nan: by the exponent, then by the significand.
MagnitudeLess(x, y) == x.e < y.e \/ (x.e = y.e /\ NatLess(x.m, y.m))

\* x < y and x <= y: false when either is nan.
Lt(x, y) ==
  /\ ~IsNaN(x) /\ ~IsNaN(y) /\ x # y
  /\ IF x.sign # y.sign THEN x.sign < y.sign
     ELSE IF x.sign = 1 THEN MagnitudeLess(x, y)
     ELSE MagnitudeLess(y, x)

Le(x, y) == ~IsNaN(x) /\ ~IsNaN(y) /\ (x = y \/ Lt(x, y))

\* min(a, b) of Python: b when b < a, else a.
Min(x, y) == IF Lt(y, x) THEN y ELSE x

(***************************************************************************)
(* Swap math: calculate_amount_out and calculate_arbitrage                 *)
(***************************************************************************)
One == FromInt(1)

Hundred == FromInt(100)

\* The literal 0.001 of "if price_diff_pct < 0.001".
SkipThresholdPct == Div(FromInt(1), FromInt(1000))

ArbitrageResult(usdc_in, zerc_bridged, usdc_out, profit, direction) ==
  [usdc_in |-> usdc_in, zerc_bridged |-> zerc_bridged, usdc_out |-> usdc_out,
   profit |-> profit, direction |-> direction]

\* The initialised result: all amounts 0.0, direction "".
EmptyResult == ArbitrageResult(Zero, Zero, Zero, Zero, "")

calculate_amount_out(amount_in, reserve_in, reserve_out) ==
  LET numerator == Mul(amount_in, reserve_out)
      denominator == Add(reserve_in, amount_in)
  IN Div(numerator, denominator)

\* numerator / denominator raises ZeroDivisionError.
AmountOutRaises(amount_in, reserve_in) == IsZero(Add(reserve_in, amount_in))

\* USDC per ZERC of one pool.
price(usdc_balance, zerc_balance) == Div(usdc_balance, zerc_balance)

\* abs(eth_price - pol_price) / min(eth_price, pol_price) * 100
price_diff_pct(eth_price, pol_price) ==
  Mul(Div(Abs(Sub(eth_price, pol_price)), Min(eth_price, pol_price)), Hundred)

\* The two prices and their relative difference raise ZeroDivisionError: a
\* ZERC balance is 0, or min(eth_price, pol_price) is 0.
PricesRaise(eth_usdc, eth_zerc, pol_usdc, pol_zerc) ==
  IF IsZero(eth_zerc) \/ IsZero(pol_zerc)
  THEN TRUE
  ELSE IsZero(Min(price(eth_usdc, eth_zerc), price(pol_usdc, pol_zerc)))

ArbitrageDirection(eth_price, pol_price) ==
  IF Lt(eth_price, pol_price) THEN "eth_to_pol" ELSE "pol_to_eth"

\* source_usdc * (gamma - 1) / (1 + gamma)
optimal_usdc_in(source_usdc, gamma) ==
  Div(Mul(source_usdc, Sub(gamma, One)), Add(One, gamma))

\* x ** 0.5 is a complex number: x is negative and finite.
IsComplexRoot(x) == IsFinite(x) /\ x.sign = -1

\* "if profit <= 0: return result"
Unprofitable(profit) == Le(profit, Zero)

\* The new prices and their relative difference raise ZeroDivisionError: a new
\* ZERC balance is 0, or min(new_source_price, new_target_price) is 0.
NewPricesRaise(new_source_usdc, new_source_zerc, new_target_usdc, new_target_zerc) ==
  IF IsZero(new_source_zerc) \/ IsZero(new_target_zerc)
  THEN TRUE
  ELSE IsZero(Min(Div(new_source_usdc, new_source_zerc),
                  Div(new_target_usdc, new_target_zerc)))

\* What "except Exception" returns: the initialised result.
Caught == [outcome |-> "caught", result |-> EmptyResult]

\* The try block from the profit on: the validation, the new pool states and
\* prices, and the result.
TryFromProfit(direction, source_usdc, source_zerc, target_usdc, target_zerc, usdc_in, zerc_out, usdc_out, profit) ==
  IF Unprofitable(profit) THEN [outcome |-> "unprofitable", result |-> EmptyResult]
  ELSE IF NewPricesRaise(Add(source_usdc, usdc_in), Sub(source_zerc, zerc_out),
                         Sub(target_usdc, usdc_out), Add(target_zerc, zerc_out))
  THEN Caught
  ELSE [outcome |-> "found",
        result |-> ArbitrageResult(usdc_in, zerc_out, usdc_out, profit, direction)]

\* The try block from the second swap on: usdc_out and the profit.
TryFromTargetSwap(direction, source_usdc, source_zerc, target_usdc, target_zerc, usdc_in, zerc_out, usdc_out) ==
  TryFromProfit(direction, source_usdc, source_zerc, target_usdc, target_zerc,
                usdc_in, zerc_out, usdc_out, Sub(usdc_out, usdc_in))

\* The try block from the first swap on: zerc_out, then the second swap.
TryFromSourceSwap(direction, source_usdc, source_zerc, target_usdc, target_zerc, usdc_in, zerc_out) ==
  IF AmountOutRaises(zerc_out, target_zerc) THEN Caught
  ELSE TryFromTargetSwap(direction, source_usdc, source_zerc, target_usdc, target_zerc,
                         usdc_in, zerc_out,
                         calculate_amount_out(zerc_out, target_zerc, target_usdc))

\* The try block from the optimal input on.
TryFromInput(direction, source_usdc, source_zerc, target_usdc, target_zerc, usdc_in) ==
  IF AmountOutRaises(usdc_in, source_usdc) THEN Caught
  ELSE TryFromSourceSwap(direction, source_usdc, source_zerc, target_usdc, target_zerc,
                         usdc_in, calculate_amount_out(usdc_in, source_usdc, source_zerc))

\* The try block from gamma on: ratio = target_ratio / source_ratio and gamma =
\* ratio ** 0.5, rounded as pow rounds it.  A negative ratio has a complex
\* ** 0.5, which fails "optimal_usdc_in > 0" with TypeError.
TryFromGamma(direction, source_usdc, source_zerc, target_usdc, target_zerc, ratio, rounding) ==
  IF IsComplexRoot(ratio) THEN Caught
  ELSE TryFromInput(direction, source_usdc, source_zerc, target_usdc, target_zerc,
                    optimal_usdc_in(source_usdc, PowHalf(ratio, rounding)))

\* The try block from the price ratios on.
TryFromRatios(direction, source_usdc, source_zerc, target_usdc, target_zerc, source_ratio, target_ratio, rounding) ==
  IF IsZero(source_ratio) THEN Caught
  ELSE TryFromGamma(direction, source_usdc, source_zerc, target_usdc, target_zerc,
                    Div(target_ratio, source_ratio), rounding)

\* The body of the try block for the chosen source and target pools.  Any
\* exception in it is caught by "except Exception" and the initialised result
\* is returned.
TryBlock(direction, source_usdc, source_zerc, target_usdc, target_zerc, rounding) ==
  TryFromRatios(direction, source_usdc, source_zerc, target_usdc, target_zerc,
                Div(source_usdc, source_zerc), Div(target_usdc, target_zerc), rounding)

\* The try block with the source and target pools its direction names.
TryDirection(direction, eth_usdc_balance, eth_zerc_balance, pol_usdc_balance, pol_zerc_balance, rounding) ==
  IF direction = "eth_to_pol"
  THEN TryBlock(direction, eth_usdc_balance, eth_zerc_balance, pol_usdc_balance,
                pol_zerc_balance, rounding)
  ELSE TryBlock(direction, pol_usdc_balance, pol_zerc_balance, eth_usdc_balance,
                eth_zerc_balance, rounding)

\* calculate_arbitrage once the two prices are computed.
ArbitrageAtPrices(eth_usdc_balance, eth_zerc_balance, pol_usdc_balance, pol_zerc_balance, eth_price, pol_price, rounding) ==
  IF Lt(price_diff_pct(eth_price, pol_price), SkipThresholdPct)
  THEN [outcome |-> "skip", result |-> EmptyResult]
  ELSE TryDirection(ArbitrageDirection(eth_price, pol_price), eth_usdc_balance,
                    eth_zerc_balance, pol_usdc_balance, pol_zerc_balance, rounding)

\* outcome: "raise" (ZeroDivisionError leaves the function), "skip" (price
\* difference under 0.001%), "caught", "unprofitable" or "found".  rounding is
\* the way pow rounds gamma.
calculate_arbitrage(eth_usdc_balance, eth_zerc_balance, pol_usdc_balance, pol_zerc_balance, rounding) ==
  IF PricesRaise(eth_usdc_balance, eth_zerc_balance, pol_usdc_balance, pol_zerc_balance)
  THEN [outcome |-> "raise", result |-> EmptyResult]
  ELSE ArbitrageAtPrices(eth_usdc_balance, eth_zerc_balance, pol_usdc_balance,
                         pol_zerc_balance, price(eth_usdc_balance, eth_zerc_balance),
                         price(pol_usdc_balance, pol_zerc_balance), rounding)

(***************************************************************************)
(* simulate_multi_round_arbitrage                                          *)
(***************************************************************************)
Balances(eth_usdc, eth_zerc, pol_usdc, pol_zerc) ==
  [eth_usdc |-> eth_usdc, eth_zerc |-> eth_zerc, pol_usdc |-> pol_usdc, pol_zerc |-> pol_zerc]

\* The update with the bridged ZERC added to the pool it was bought from.
UpdateBalancesZercSwapped(cur, result) ==
  IF result.direction = "eth_to_pol"
  THEN Balances(Add(cur.eth_usdc, result.usdc_in), Add(cur.eth_zerc, result.zerc_bridged),
                Sub(cur.pol_usdc, result.usdc_out), Sub(cur.pol_zerc, result.zerc_bridged))
  ELSE Balances(Sub(cur.eth_usdc, result.usdc_out), Sub(cur.eth_zerc, result.zerc_bridged),
                Add(cur.pol_usdc, result.usdc_in), Add(cur.pol_zerc, result.zerc_bridged))

\* "Update pool balances based on the arbitrage"
UpdateBalances(cur, result) ==
  IF result.direction = "eth_to_pol"
  THEN Balances(Add(cur.eth_usdc, result.usdc_in), Sub(cur.eth_zerc, result.zerc_bridged),
                Sub(cur.pol_usdc, result.usdc_out), Add(cur.pol_zerc, result.zerc_bridged))
  ELSE Balances(Sub(cur.eth_usdc, result.usdc_out), Add(cur.eth_zerc, result.zerc_bridged),
                Add(cur.pol_usdc, result.usdc_in), Sub(cur.pol_zerc, result.zerc_bridged))

\* "for i in range(max_rounds)" has run out.
LoopExhausted(index, rounds) == index >= rounds

\* Floats that are not small integers, each as its record: the limbs of the
\* significand and the exponent of its last place.
\* 2.0 ** -600
TwoToMinus600 == [sign |-> 1, m |-> <<0, 0, 0, 1024>>, e |-> -652]

\* 2.0 ** 600
TwoTo600 == [sign |-> 1, m |-> <<0, 0, 0, 1024>>, e |-> 548]

\* 1e-10
TenToMinus10 == [sign |-> 1, m |-> <<15803, 10078, 3581, 1759>>, e |-> -86]

\* 1e20
TenTo20 == [sign |-> 1, m |-> <<3136, 8918, 12759, 1387>>, e |-> 14]

\* -0.75
MinusThreeQuarters == [sign |-> -1, m |-> <<0, 0, 0, 1536>>, e |-> -53]

\* 31.500000000000004
GapLeftStable == [sign |-> 1, m |-> <<1, 0, 0, 2016>>, e |-> -48]

\* 15.750000000000002
GapLeftOther == [sign |-> 1, m |-> <<1, 0, 0, 2016>>, e |-> -49]

\* 13.5
GapRightStable == [sign |-> 1, m |-> <<0, 0, 0, 1728>>, e |-> -49]

\* 3.480601372056919
DrainLeftStable == [sign |-> 1, m |-> <<11637, 8428, 1112, 1782>>, e |-> -51]

\* 6.146513832497675
DrainRightStable == [sign |-> 1, m |-> <<13536, 9071, 8315, 1573>>, e |-> -50]

\* 1.9497380107062305
DrainRightOther == [sign |-> 1, m |-> <<1424, 12272, 8711, 1996>>, e |-> -52]

\* Balances a caller passes: moderate positive reserves, positive reserves of
\* extreme size, and reserves with a zero or a negative value.
Scenarios ==
  {Balances(FromInt(1000000), FromInt(500000), FromInt(1000000), FromInt(250000)),
   Balances(FromInt(1000000), FromInt(250000), FromInt(1000000), FromInt(500000)),
   Balances(FromInt(1000), FromInt(500), FromInt(1000), FromInt(250)),
   Balances(FromInt(1000), FromInt(500), FromInt(1000), FromInt(500)),
   Balances(FromInt(1000), FromInt(500), FromInt(1001), FromInt(500)),
   Balances(FromInt(100000000), FromInt(50000000), FromInt(100000001), FromInt(50000000)),
   Balances(GapLeftStable, GapLeftOther, GapRightStable, FromInt(3)),
   Balances(DrainLeftStable, TenTo20, DrainRightStable, DrainRightOther),
   Balances(TenToMinus10, TenTo20, FromInt(1), FromInt(1)),
   Balances(TwoToMinus600, TwoTo600, FromInt(1), FromInt(1)),
   Balances(TwoToMinus600, FromInt(1), FromInt(1), TwoToMinus600),
   Balances(FromInt(100), FromInt(50), FromInt(-100), FromInt(-25)),
   Balances(FromInt(-3), FromInt(-3), FromInt(-3), FromInt(-3)),
   Balances(FromInt(100), FromInt(0), FromInt(100), FromInt(25)),
   Balances(FromInt(0), FromInt(3), FromInt(3), FromInt(3)),
   Balances(FromInt(3), FromInt(3), FromInt(-3), MinusThreeQuarters)}

\* Small reserves, taken in every combination.
SmallReserves == {FromInt(1), FromInt(3), FromInt(12)}

InitialBalances ==
  Scenarios \cup {Balances(a, b, c, d) : a \in SmallReserves, b \in SmallReserves,
                                         c \in SmallReserves, d \in SmallReserves}

\* min_price_diff_pct: the default 0.1, and 0.
Thresholds == {Div(FromInt(1), FromInt(10)), Zero}

VARIABLES
  pc,                  \* "loop": at the head of the for loop; "called": after the
                       \* call of calculate_arbitrage; "returned"; "raised"
  initial,             \* the four balances passed in
  max_rounds,
  min_price_diff_pct,
  i,                   \* rounds completed
  current,             \* current_eth_usdc, current_eth_zerc, current_pol_usdc, current_pol_zerc
  results,
  total_profit,
  before,              \* history: the balances before the last round applied
  calls                \* history: the calls of calculate_arbitrage, in order

vars == <<pc, initial, max_rounds, min_price_diff_pct, i, current, results,
          total_profit, before, calls>>

Init ==
  /\ initial \in InitialBalances
  /\ max_rounds \in 0 .. MaxRounds
  /\ min_price_diff_pct \in Thresholds
  /\ pc = "loop"
  /\ i = 0
  /\ current = initial
  /\ results = << >>
  /\ total_profit = Zero
  /\ before = initial
  /\ calls = << >>

CurrentRaises ==
  PricesRaise(current.eth_usdc, current.eth_zerc, current.pol_usdc, current.pol_zerc)

CurrentDiffPct ==
  price_diff_pct(price(current.eth_usdc, current.eth_zerc),
                 price(current.pol_usdc, current.pol_zerc))

\* The call of calculate_arbitrage on the current balances, with what it returns.
CurrentCall(rounding) ==
  [args |-> current,
   ret |-> calculate_arbitrage(current.eth_usdc, current.eth_zerc,
                               current.pol_usdc, current.pol_zerc, rounding)]

\* The last call recorded in a history of calls.
LastOf(history) == history[Len(history)]

\* The loop ends after max_rounds rounds: return results.
LoopExit ==
  /\ pc = "loop"
  /\ LoopExhausted(i, max_rounds)
  /\ pc' = "returned"
  /\ UNCHANGED <<initial, max_rounds, min_price_diff_pct, i, current, results,
                 total_profit, before, calls>>

\* The prices of the round raise ZeroDivisionError, which leaves the function.
RaiseZeroDivision ==
  /\ pc = "loop"
  /\ ~LoopExhausted(i, max_rounds)
  /\ CurrentRaises
  /\ pc' = "raised"
  /\ UNCHANGED <<initial, max_rounds, min_price_diff_pct, i, current, results,
                 total_profit, before, calls>>

\* "if price_diff_pct < min_price_diff_pct: break"
BreakBelowThreshold ==
  /\ pc = "loop"
  /\ ~LoopExhausted(i, max_rounds)
  /\ ~CurrentRaises
  /\ Lt(CurrentDiffPct, min_price_diff_pct)
  /\ pc' = "returned"
  /\ UNCHANGED <<initial, max_rounds, min_price_diff_pct, i, current, results,
                 total_profit, before, calls>>

\* "result = calculate_arbitrage(...)" on the current balances.
CallArbitrage ==
  /\ pc = "loop"
  /\ ~LoopExhausted(i, max_rounds)
  /\ ~CurrentRaises
  /\ ~Lt(CurrentDiffPct, min_price_diff_pct)
  /\ \E rounding \in PowRoundings : calls' = Append(calls, CurrentCall(rounding))
  /\ pc' = "called"
  /\ UNCHANGED <<initial, max_rounds, min_price_diff_pct, i, current, results,
                 total_profit, before>>

\* "if result["profit"] <= 0: break"
BreakNoProfit ==
  /\ pc = "called"
  /\ Le(LastOf(calls).ret.result.profit, Zero)
  /\ pc' = "returned"
  /\ UNCHANGED <<initial, max_rounds, min_price_diff_pct, i, current, results,
                 total_profit, before, calls>>

\* A profitable round: update the balances, append the result, next round.
ApplyRound ==
  /\ pc = "called"
  /\ ~Le(LastOf(calls).ret.result.profit, Zero)
  /\ before' = current
  /\ current' = UpdateBalances(current, LastOf(calls).ret.result)
  /\ results' = Append(results, LastOf(calls).ret.result)
  /\ total_profit' = Add(total_profit, LastOf(calls).ret.result.profit)
  /\ i' = i + 1
  /\ pc' = "loop"
  /\ UNCHANGED <<initial, max_rounds, min_price_diff_pct, calls>>

Next ==
  \/ LoopExit
  \/ RaiseZeroDivision
  \/ BreakBelowThreshold
  \/ CallArbitrage
  \/ BreakNoProfit
  \/ ApplyRound

Spec == Init /\ [][Next]_vars

(***************************************************************************)
(* Properties                                                              *)
(***************************************************************************)
\* Four strictly positive (finite) reserves.
Positive(x) == IsFinite(x) /\ Lt(Zero, x)

ValidReserves(b) ==
  Positive(b.eth_usdc) /\ Positive(b.eth_zerc) /\ Positive(b.pol_usdc) /\ Positive(b.pol_zerc)

Directions == {"eth_to_pol", "pol_to_eth"}

\* The reserves of the pool a round buys from (source) and sells to (target).
SourceStable(b, direction) == IF direction = "eth_to_pol" THEN b.eth_usdc ELSE b.pol_usdc

SourceOther(b, direction) == IF direction = "eth_to_pol" THEN b.eth_zerc ELSE b.pol_zerc

TargetStable(b, direction) == IF direction = "eth_to_pol" THEN b.pol_usdc ELSE b.eth_usdc

TargetOther(b, direction) == IF direction = "eth_to_pol" THEN b.pol_zerc ELSE b.eth_zerc

\* abs(p1 - p2) / min(p1, p2) of the two pools' prices, for valid reserves.
RelativePriceDifference(b) ==
  Div(Abs(Sub(price(b.eth_usdc, b.eth_zerc), price(b.pol_usdc, b.pol_zerc))),
      Min(price(b.eth_usdc, b.eth_zerc), price(b.pol_usdc, b.pol_zerc)))

\* The fee rate 0.003 and the fee-inclusive swap output as the specification states it.
FeeRate == Div(FromInt(3), FromInt(1000))

swap_output(amount_in, reserve_in, reserve_out) ==
  LET effective_input == Mul(amount_in, Sub(One, FeeRate))
  IN Div(Mul(effective_input, reserve_out), Add(reserve_in, effective_input))

\* The profit of the two-leg round trip for an input a, as the code computes it.
RoundTripProfit(a, source_usdc, source_zerc, target_usdc, target_zerc) ==
  Sub(calculate_amount_out(calculate_amount_out(a, source_usdc, source_zerc),
                           target_zerc, target_usdc), a)

\* Other input sizes to compare with: a * k / 4 for k = 0 .. 8.
CandidateInputs(a) == {Div(Mul(a, FromInt(k)), FromInt(4)) : k \in 0 .. 8}

\* x and y differ by at most 16 relative rounding errors (2^-Precision) of scale.
Tolerance == Rnd(1, <<1>>, 4 - Precision)

ApproxEqual(x, y, scale) == Le(Abs(Sub(x, y)), Mul(Tolerance, Abs(scale)))

\* The four amounts of a round are finite numbers (neither inf nor nan).
FiniteAmounts(r) ==
  IsFinite(r.usdc_in) /\ IsFinite(r.zerc_bridged) /\ IsFinite(r.usdc_out) /\ IsFinite(r.profit)

\* A result is the zero-result or a profitable round.
ZeroOrProfitable(r) ==
  \/ r = EmptyResult
  \/ /\ Lt(r.usdc_in, r.usdc_out)
     /\ Lt(Zero, r.usdc_in)
     /\ Lt(Zero, r.zerc_bridged)
     /\ r.profit = Sub(r.usdc_out, r.usdc_in)
     /\ r.direction \in Directions

\* This step appends the round r and changes the four reserves as r says.
RoundApplied(r) ==
  /\ results' = Append(results, r)
  /\ r.direction \in Directions
  /\ SourceStable(current', r.direction) = Add(SourceStable(current, r.direction), r.usdc_in)
  /\ SourceOther(current', r.direction) = Sub(SourceOther(current, r.direction), r.zerc_bridged)
  /\ TargetStable(current', r.direction) = Sub(TargetStable(current, r.direction), r.usdc_out)
  /\ TargetOther(current', r.direction) = Add(TargetOther(current, r.direction), r.zerc_bridged)

\* The totals over both pools, exactly, for a round of finite amounts applied to
\* valid reserves: other-asset conserved, stable-asset down by the profit.
TotalsExact(r) ==
  (ValidReserves(current) /\ FiniteAmounts(r)) =>
    /\ Add(current'.eth_zerc, current'.pol_zerc) = Add(current.eth_zerc, current.pol_zerc)
    /\ Add(current'.eth_usdc, current'.pol_usdc)
         = Sub(Add(current.eth_usdc, current.pol_usdc), r.profit)

\* The same totals up to floating-point rounding, for a round of finite amounts
\* applied to valid reserves.
TotalsRounded(r) ==
  (ValidReserves(current) /\ FiniteAmounts(r)) =>
    /\ ApproxEqual(Add(current'.eth_zerc, current'.pol_zerc),
                   Add(current.eth_zerc, current.pol_zerc),
                   Add(current.eth_zerc, current.pol_zerc))
    /\ ApproxEqual(Add(current'.eth_usdc, current'.pol_usdc),
                   Sub(Add(current.eth_usdc, current.pol_usdc), r.profit),
                   Add(current.eth_usdc, current.pol_usdc))

\* C1: from four positive reserves simulate never ends by raising and never
\* holds more than max_rounds rounds; with max_rounds = 0 it returns an empty
\* round sequence and the snapshot is the initial one.
C1_ReturnsWithinMaxRounds ==
  ValidReserves(initial) =>
    /\ pc # "raised"
    /\ i <= max_rounds
    /\ Len(results) <= max_rounds
    /\ (max_rounds = 0 /\ pc = "returned") => (results = << >> /\ current = initial)

\* C2: both legs of a round take the 0.003 fee from their input: for valid
\* reserves the bridged amount and the received amount of a round found are the
\* fee-inclusive swap outputs.
C2_FeeOnBothLegs ==
  \A k \in 1 .. Len(calls) :
    LET c == calls[k]
        r == c.ret.result
    IN (ValidReserves(c.args) /\ c.ret.outcome = "found") =>
         /\ r.zerc_bridged = swap_output(r.usdc_in, SourceStable(c.args, r.direction),
                                         SourceOther(c.args, r.direction))
         /\ r.usdc_out = swap_output(r.zerc_bridged, TargetOther(c.args, r.direction),
                                     TargetStable(c.args, r.direction))

\* C3: a call with a zero or negative reserve is rejected before the round loop:
\* no round is evaluated or appended and no result sequence is returned.
C3_InvalidReservesRejected ==
  ~ValidReserves(initial) => (pc # "returned" /\ calls = << >> /\ results = << >>)

\* C4: an error inside calculate_arbitrage is never turned into the zero-result:
\* no call ends with the zero-result after an exception was caught, and a run
\* that returned without a round met no such exception.
C4_ErrorsNotSwallowed ==
  /\ \A k \in 1 .. Len(calls) : calls[k].ret.outcome # "caught"
  /\ (pc = "returned" /\ results = << >>) =>
       \A k \in 1 .. Len(calls) : calls[k].ret.outcome \in {"skip", "unprofitable"}

\* C5: for valid reserves every result of calculate_arbitrage is the zero-result
\* or has usdc_out > usdc_in > 0, zerc_bridged > 0 and profit = usdc_out - usdc_in;
\* every round in results has a positive profit and a direction.
C5_ResultZeroOrProfitable ==
  /\ \A k \in 1 .. Len(calls) :
       ValidReserves(calls[k].args) => ZeroOrProfitable(calls[k].ret.result)
  /\ ValidReserves(initial) =>
       \A k \in 1 .. Len(results) :
         Lt(Zero, results[k].profit) /\ results[k].direction \in Directions

\* C6: from valid reserves, the relative price difference after a round (of
\* finite amounts, leaving valid reserves) is at most the one before it.
C6_GapNeverWidens ==
  (Len(results) >= 1 /\ ValidReserves(before) /\ ValidReserves(current)) =>
    Le(RelativePriceDifference(current), RelativePriceDifference(before))

\* C7 as stated: a step that appends a round changes the four reserves as the
\* round says (source stable + usdc_in, source other - zerc_bridged, target
\* stable - usdc_out, target other + zerc_bridged) and every other step leaves
\* the snapshot alone; the total other-asset is conserved and the total
\* stable-asset falls by exactly the profit.
C7_ExactTotals ==
  [][IF results' # results
     THEN RoundApplied(LastOf(results')) /\ TotalsExact(LastOf(results'))
     ELSE current' = current]_vars

\* C7 as amended: the four reserves change exactly as the round says and no
\* other step changes the snapshot; for a round of finite amounts applied to
\* positive reserves the two totals hold up to floating-point rounding.
C7_RoundedTotals ==
  [][IF results' # results
     THEN RoundApplied(LastOf(results')) /\ TotalsRounded(LastOf(results'))
     ELSE current' = current]_vars

\* A second round of finite amounts, bought on Polygon, was applied to valid reserves.
C7_Witness ==
  /\ Len(results) >= 2
  /\ ValidReserves(before)
  /\ FiniteAmounts(LastOf(results))
  /\ LastOf(results).direction = "pol_to_eth"

\* C8: for valid reserves and a round of finite amounts, no other input size
\* gives a larger round-trip profit than the computed optimal input.
C8_OptimalInputMaximizesProfit ==
  \A k \in 1 .. Len(calls) :
    LET c == calls[k]
        r == c.ret.result
        su == SourceStable(c.args, r.direction)
        sz == SourceOther(c.args, r.direction)
        tu == TargetStable(c.args, r.direction)
        tz == TargetOther(c.args, r.direction)
    IN (ValidReserves(c.args) /\ c.ret.outcome = "found" /\ FiniteAmounts(r)) =>
         \A a \in CandidateInputs(r.usdc_in) :
           Le(RoundTripProfit(a, su, sz, tu, tz), r.profit)

\* C9: after a round of finite amounts applied to valid reserves each pool's
\* product of reserves is at least what it was.
C9_ProductNeverFalls ==
  (Len(results) >= 1 /\ ValidReserves(before) /\ FiniteAmounts(LastOf(results))) =>
    /\ Le(Mul(before.eth_usdc, before.eth_zerc), Mul(current.eth_usdc, current.eth_zerc))
    /\ Le(Mul(before.pol_usdc, before.pol_zerc), Mul(current.pol_usdc, current.pol_zerc))

\* C10: from four positive reserves all four reserves stay positive after every
\* round of finite amounts: each round bridges less than the source pool's
\* other-asset reserve and pays out less than the target pool's stable reserve.
C10_ReservesStayPositive ==
  (ValidReserves(initial) /\ \A k \in 1 .. Len(results) : FiniteAmounts(results[k])) =>
    /\ ValidReserves(current)
    /\ \A k \in 1 .. Len(results) :
         LET c == calls[k]
             r == results[k]
         IN /\ Lt(r.zerc_bridged, SourceOther(c.args, r.direction))
            /\ Lt(r.usdc_out, TargetStable(c.args, r.direction))

====
